---------------------------- MODULE Spec2Model ----------------------------
(***************************************************************************)
(* SequenceAttack (sequence_attack.py): the game session of game(), the    *)
(* mutation generator new_falling_segment, the alignment scorer            *)
(* score_alignment, the name prompt and the leaderboard store.             *)
(*                                                                         *)
(* Sequences are Python lists: the Python index i (from 0) is the TLA+     *)
(* index i + 1.  fall_x and cursor keep their Python values.  A symbol is  *)
(* a one-character string, a name the sequence of its code points.          *)
(* Delays are in microseconds (0.5 s = 500000), products rounded down.      *)
(*                                                                         *)
(* One iteration of the loop of game() is a physics step (FallStep or      *)
(* NoFallStep: the clock decides), a landing if the landing row is reached *)
(* and the handling of the key read.  The drawing calls change nothing of  *)
(* the session and are left out, as is the clock itself.  seg_len and the  *)
(* minimum width (both 20) are scaled down, see the bounds.                *)
(***************************************************************************)
EXTENDS Integers, Sequences, FiniteSets, TLC

VARIABLES
    height, width,        \* stdscr.getmaxyx() of the session
    base_seq, bottom_seq, \* the reference and the row drawn at the bottom
    falling_seq,          \* the falling segment
    mutation_counts,      \* the counts of the round's generation
    fall_x, fall_y,       \* horizontal offset, vertical position
    score, multiplier,
    edits_remaining,
    mode,                 \* "move" or "edit_top"
    cursor,
    base_fall_delay, fall_delay,
    name,                 \* the name typed in prompt_name
    leaderboard_file,     \* the content of leaderboard.json
    pc,                   \* the position of the session in game()
    landings,             \* number of landings resolved so far
    edits_applied,        \* edits applied to the segment in this round
    args, ret             \* arguments and result of a function called alone

vars == <<height, width, base_seq, bottom_seq, falling_seq, mutation_counts,
          fall_x, fall_y, score, multiplier, edits_remaining, mode, cursor,
          base_fall_delay, fall_delay, name, leaderboard_file, pc, landings,
          edits_applied, args, ret>>

-----------------------------------------------------------------------------
(* Bounds of the model *)

\* seg_len = 20 and the minimum width 20 of the source, scaled down
SegLen == 2
MinWidth == 3
MaxWidth == 4
MaxHeight == 6
\* landings after which the model stops resolving landings
MaxLandings == 2
\* mutated symbols of one generated segment
MaxMutations == 2
\* longest sequences and offsets of the scorer called alone
MaxLen == 4
\* longest reference of the generator called alone
MaxRefLen == 3
\* letters the model types into the name prompt of a session
MaxTyped == 1
\* items of leaderboard.json when the store is called alone, and calls of
\* add_leaderboard_entry made on it
MaxItems == 2
MaxAdds == 2
\* entries given to sorted_leaderboard called alone
MaxEntries == 3
\* landings followed when only the rounds and their delays are modelled
MaxRounds == 24

(* Program constants *)
MinHeight == 6
MAX_NAME_LEN == 12
PerfectBonus == 50
InitialFallDelay == 500000
MinFallDelay == 5000

NUCLEOTIDES == <<"A", "T", "G", "C">>
Blank == " "

Nucleotides == {NUCLEOTIDES[i] : i \in 1..Len(NUCLEOTIDES)}

Max(a, b) == IF a >= b THEN a ELSE b
Min(a, b) == IF a <= b THEN a ELSE b

-----------------------------------------------------------------------------
(* Pure functions *)

clampHigh(value, low, high) == Min(value, high)

clamp(value, low, high) == Max(low, Min(value, high))

centered_fall_x(play_width, seq_len) ==
    clamp((play_width - seq_len) \div 2, 0, Max(0, play_width - seq_len))

\* list.insert(cursor, " "): an index past the end appends, a negative one
\* counts from the end and stops at the front
insert_space(seq, cur) ==
    LET at == IF cur < 0 THEN Max(0, Len(seq) + cur) ELSE Min(cur, Len(seq))
    IN  SubSeq(seq, 1, at) \o <<Blank>> \o SubSeq(seq, at + 1, Len(seq))

\* the position a Python index names: a negative one counts from the end
PyIndex(seq, cur) == IF cur < 0 THEN cur + Len(seq) ELSE cur

\* an index list.pop and list.__getitem__ accept without IndexError
InRange(seq, cur) == -Len(seq) <= cur /\ cur < Len(seq)

\* seq[cursor]
getitem(seq, cur) == seq[PyIndex(seq, cur) + 1]

\* list.pop(cursor) for an index in range
pop(seq, cur) ==
    SubSeq(seq, 1, PyIndex(seq, cur)) \o SubSeq(seq, PyIndex(seq, cur) + 2, Len(seq))

\* seq[cursor] = new_base for an index in range
setitem(seq, cur, new_base) == [seq EXCEPT ![PyIndex(seq, cur) + 1] = new_base]

IsComparedAnyBottom(falling, x, bottom, i) ==
    /\ 0 <= x + i
    /\ x + i < Len(bottom)
    /\ falling[i + 1] # Blank

\* the test of lines 68 and 74: position i of the falling segment is compared
IsCompared(falling, x, bottom, i) ==
    /\ 0 <= x + i
    /\ x + i < Len(bottom)
    /\ falling[i + 1] # Blank
    /\ bottom[x + i + 1] # Blank

\* the for loop of lines 66-73, from position i on, with its two accumulators
RECURSIVE ScoreLoop(_, _, _, _, _, _)
ScoreLoop(falling, x, bottom, i, sc, aligned) ==
    IF i >= Len(falling) THEN [score |-> sc, aligned |-> aligned]
    ELSE IF IsCompared(falling, x, bottom, i)
         THEN IF falling[i + 1] = bottom[x + i + 1]
              THEN ScoreLoop(falling, x, bottom, i + 1, sc + 1, aligned + 1)
              ELSE ScoreLoop(falling, x, bottom, i + 1, sc - 1, aligned)
         ELSE ScoreLoop(falling, x, bottom, i + 1, sc, aligned)

\* the generator sum of line 74
RECURSIVE SumCompared(_, _, _, _)
SumCompared(falling, x, bottom, i) ==
    IF i >= Len(falling) THEN 0
    ELSE (IF IsCompared(falling, x, bottom, i) THEN 1 ELSE 0)
         + SumCompared(falling, x, bottom, i + 1)

score_alignmentBonusOnMatch(falling, x, bottom) ==
    LET loop    == ScoreLoop(falling, x, bottom, 0, 0, 0)
        perfect == loop.aligned > 0
                   /\ loop.aligned = SumCompared(falling, x, bottom, 0)
    IN  [delta   |-> IF loop.aligned > 0 THEN loop.score + PerfectBonus ELSE loop.score,
         perfect |-> perfect]

score_alignment(falling, x, bottom) ==
    LET loop    == ScoreLoop(falling, x, bottom, 0, 0, 0)
        perfect == loop.aligned > 0
                   /\ loop.aligned = SumCompared(falling, x, bottom, 0)
    IN  [delta   |-> IF perfect THEN loop.score + PerfectBonus ELSE loop.score,
         perfect |-> perfect]

-----------------------------------------------------------------------------
(* Mutation generator *)

NoCounts == [deletions |-> 0, snps |-> 0, insertions |-> 0]

SumCountsNoInsertions(c) == c.deletions + c.snps

\* sum(mutation_counts.values())
SumCounts(c) == c.deletions + c.snps + c.insertions

\* lines 20-25: the windows random.randint can select, with their start index
Windows(base, seg_len) ==
    IF seg_len >= Len(base)
    THEN {[segment |-> base, start |-> 0]}
    ELSE {[segment |-> SubSeq(base, s + 1, s + seg_len), start |-> s] :
              s \in 0..(Len(base) - seg_len)}

\* lines 31-49: every outcome of the rolls for the symbols from position i on
RECURSIVE MutateLoop(_, _)
MutateLoop(segment, i) ==
    IF i >= Len(segment) THEN {[mutated |-> <<>>, counts |-> NoCounts]}
    ELSE LET base == segment[i + 1]
             rest == MutateLoop(segment, i + 1)
         IN  {[mutated |-> r.mutated,
               counts  |-> [r.counts EXCEPT !.deletions = @ + 1]] : r \in rest}
             \cup
             {[mutated |-> <<n>> \o r.mutated,
               counts  |-> [r.counts EXCEPT !.snps = @ + 1]] :
                  n \in Nucleotides \ {base}, r \in rest}
             \cup
             {[mutated |-> <<base, n>> \o r.mutated,
               counts  |-> [r.counts EXCEPT !.insertions = @ + 1]] :
                  n \in Nucleotides, r \in rest}
             \cup
             {[mutated |-> <<base>> \o r.mutated, counts |-> r.counts] : r \in rest}

ForceNothing(m) == {m}

\* lines 50-51: an empty result gets one random symbol
ForceNonEmpty(m) ==
    IF m.mutated = <<>>
    THEN {[mutated |-> <<n>>, counts |-> m.counts] : n \in Nucleotides}
    ELSE {m}

\* every (mutated, start, counts) the function can return
new_falling_segment(base, seg_len) ==
    UNION {UNION {{[mutated |-> f.mutated, start |-> w.start, counts |-> f.counts] :
                       f \in ForceNonEmpty(m)} : m \in MutateLoop(w.segment, 0)} :
               w \in Windows(base, seg_len)}

\* the outcomes the session model follows
RoundOutcomes(base) ==
    {r \in new_falling_segment(base, SegLen) : SumCounts(r.counts) <= MaxMutations}

\* make_base_sequence: every sequence of the given length
make_base_sequence(w) == [1..w -> Nucleotides]

NucIndex(n) == CHOOSE i \in 1..Len(NUCLEOTIDES) : NUCLEOTIDES[i] = n

\* One reference per renaming of the nucleotides: the first symbol is
\* NUCLEOTIDES[1] and a symbol is new only after all the earlier ones.
IsCanonical(s) ==
    \A i \in 1..Len(s) :
        \A k \in 1..(NucIndex(s[i]) - 1) : \E j \in 1..(i - 1) : s[j] = NUCLEOTIDES[k]

-----------------------------------------------------------------------------
(* Leaderboard store *)

\* names are sequences of code points
IsUpperCode(c) == c \in 65..90
IsAlpha(c) ==
    \/ c \in 65..90 \/ c \in 97..122
    \/ c \in {170, 181, 186}
    \/ c \in 192..214 \/ c \in 216..246 \/ c \in 248..255

\* ch.isascii() and ch.isalpha()
IsAsciiAlpha(c) == c \in 65..90 \/ c \in 97..122
LowerCode(c) == IF IsUpperCode(c) THEN c + 32 ELSE c
Lower(nm) == [i \in 1..Len(nm) |-> LowerCode(nm[i])]

RECURSIVE StrLess(_, _)
StrLess(a, b) ==
    IF b = <<>> THEN FALSE
    ELSE IF a = <<>> THEN TRUE
    ELSE IF Head(a) # Head(b) THEN Head(a) < Head(b)
    ELSE StrLess(Tail(a), Tail(b))

KeyLessCaseSensitive(a, b) ==
    \/ a.score > b.score
    \/ a.score = b.score /\ StrLess(a.name.val, b.name.val)

\* the sort key (-score, name.lower()) of line 131
KeyLess(a, b) ==
    \/ a.score > b.score
    \/ a.score = b.score /\ StrLess(Lower(a.name.val), Lower(b.name.val))

\* e goes after every entry that does not come after it: sorted() is stable
RECURSIVE InsertRanked(_, _)
InsertRanked(sorted, e) ==
    IF sorted = <<>> THEN <<e>>
    ELSE IF KeyLess(e, Head(sorted)) THEN <<e>> \o sorted
    ELSE <<Head(sorted)>> \o InsertRanked(Tail(sorted), e)

RECURSIVE SortFrom(_, _)
SortFrom(entries, acc) ==
    IF entries = <<>> THEN acc
    ELSE SortFrom(Tail(entries), InsertRanked(acc, Head(entries)))

sorted_leaderboard(entries) == SortFrom(entries, <<>>)

\* JSON values of leaderboard.json, tagged with their type
JNull == [type |-> "null", val |-> <<>>]
JAbsent == [type |-> "absent", val |-> <<>>]
JInt(n) == [type |-> "int", val |-> <<n>>]
JStr(s) == [type |-> "str", val |-> s]

\* a JSON object with the values of its keys "name" and "score" (JAbsent: no key)
JDict(nm, sc) == [type |-> "dict", name |-> nm, score |-> sc]

\* the file does not exist, cannot be opened, holds no JSON, holds JSON that
\* is not a list
MissingFile == [kind |-> "missing", items |-> <<>>]
UnreadableFile == [kind |-> "unreadable", items |-> <<>>]
NotJsonFile == [kind |-> "not_json", items |-> <<>>]
NotListFile == [kind |-> "not_list", items |-> <<>>]

IsDigitCode(c) == c \in 48..57

\* the value of a string of digits
RECURSIVE DigitsValue(_)
DigitsValue(s) ==
    IF s = <<>> THEN 0
    ELSE 10 * DigitsValue(SubSeq(s, 1, Len(s) - 1)) + (s[Len(s)] - 48)

\* int(x) for strings of letters, digits and "-"
ParseInt(s) ==
    LET digits == IF s # <<>> /\ Head(s) = 45 THEN Tail(s) ELSE s
    IN  IF digits # <<>> /\ \A i \in 1..Len(digits) : IsDigitCode(digits[i])
        THEN [error |-> "none",
              val   |-> IF Head(s) = 45 THEN -DigitsValue(digits) ELSE DigitsValue(digits)]
        ELSE [error |-> "ValueError", val |-> 0]

\* int(x): None raises TypeError
IntOf(v) ==
    CASE v.type = "int" -> [error |-> "none", val |-> v.val[1]]
      [] v.type = "str" -> ParseInt(v.val)
      [] OTHER          -> [error |-> "TypeError", val |-> 0]

\* item.get("name", ""), item.get("score", 0)
GetName(item) == IF item.name = JAbsent THEN JStr(<<>>) ELSE item.name
GetScore(item) == IF item.score = JAbsent THEN JInt(0) ELSE item.score

\* the list comprehension of lines 115-119 from item i on: the first int()
\* that raises ends it
RECURSIVE LoadItems(_, _)
LoadItems(items, i) ==
    IF i > Len(items) THEN [error |-> "none", entries |-> <<>>]
    ELSE IF items[i].type # "dict" THEN LoadItems(items, i + 1)
    ELSE LET sc   == IntOf(GetScore(items[i]))
             rest == LoadItems(items, i + 1)
         IN  IF sc.error # "none" THEN [error |-> sc.error, entries |-> <<>>]
             ELSE [error   |-> rest.error,
                   entries |-> IF rest.error # "none" THEN <<>>
                               ELSE <<[name |-> GetName(items[i]), score |-> sc.val]>>
                                    \o rest.entries]

\* the exception load_leaderboard() lets through: line 120 catches OSError and
\* ValueError only
LoadError(file) ==
    IF file.kind = "list" /\ LoadItems(file.items, 1).error = "TypeError"
    THEN "TypeError"
    ELSE "none"

\* the list load_leaderboard() returns when it returns
load_leaderboard(file) ==
    IF file.kind = "list" /\ LoadItems(file.items, 1).error = "none"
    THEN LoadItems(file.items, 1).entries
    ELSE <<>>

\* json.dump of the entries
save_leaderboard(entries) ==
    [kind  |-> "list",
     items |-> [i \in 1..Len(entries) |->
                   JDict(entries[i].name, JInt(entries[i].score))]]

\* item["name"].lower() of line 131 raises for a name that is no string
SortError(entries) ==
    IF \E i \in 1..Len(entries) : entries[i].name.type # "str"
    THEN "AttributeError"
    ELSE "none"

\* the exception add_leaderboard_entry(name, score) ends with
AddError(file, nm, sc) ==
    IF LoadError(file) # "none" THEN LoadError(file)
    ELSE SortError(Append(load_leaderboard(file), [name |-> JStr(nm), score |-> sc]))

\* the file after add_leaderboard_entry(name, score): an exception comes
\* before save_leaderboard
add_leaderboard_entry(file, nm, sc) ==
    IF AddError(file, nm, sc) # "none" THEN file
    ELSE save_leaderboard(
             sorted_leaderboard(
                 Append(load_leaderboard(file), [name |-> JStr(nm), score |-> sc])))

-----------------------------------------------------------------------------
(* Key codes: ord() of the characters and the curses KEY_ constants *)

KEY_DOWN == 258
KEY_UP == 259
KEY_LEFT == 260
KEY_RIGHT == 261
KEY_BACKSPACE == 263
KEY_ENTER == 343

QuitKeys == {113, 81}                            \* ord("q"), ord("Q")
ConfirmKeys == {KEY_ENTER, 10, 13, 27}
EnterKeys == {KEY_ENTER, 10, 13}
EscapeKeys == {27}
SpaceKeys == {32}
BackspaceKeys == {KEY_BACKSPACE, 127, 8}
BaseKeys == {97, 65, 116, 84, 103, 71, 99, 67}   \* a A t T g G c C

\* chr(key).upper() for the keys of BaseKeys
UpperBase(key) ==
    CASE key \in {97, 65}  -> "A"
      [] key \in {116, 84} -> "T"
      [] key \in {103, 71} -> "G"
      [] key \in {99, 67}  -> "C"

\* the base keys the model presses: a and T
PressedBaseKeys == {97, 84}

\* the keys the model presses during the fall; 120 is ord("x"), bound to nothing
GameKeys ==
    QuitKeys \cup ConfirmKeys \cup SpaceKeys \cup BackspaceKeys \cup PressedBaseKeys
    \cup {KEY_UP, KEY_DOWN, KEY_LEFT, KEY_RIGHT, 120}

\* the keys the model presses in the name prompt: q, 1, e-acute, KEY_UP
PromptKeys ==
    EnterKeys \cup EscapeKeys \cup BackspaceKeys \cup {113, 49, 233, KEY_UP}

-----------------------------------------------------------------------------
(* The session: game() *)

play_width == width - 2
top_y == 2
bottom_y == height - 2

TooSmall(h, w) == h < MinHeight \/ w < MinWidth

StartRoundKeepMode(r) ==
    /\ falling_seq' = r.mutated
    /\ mutation_counts' = r.counts
    /\ fall_x' = centered_fall_x(play_width, Len(r.mutated))
    /\ fall_y' = top_y
    /\ mode' = mode
    /\ cursor' = 0
    /\ edits_remaining' = SumCounts(r.counts)
    /\ edits_applied' = 0

\* lines 292-299 (and 248-259 for the first round): the state of a new round
StartRound(r) ==
    /\ falling_seq' = r.mutated
    /\ mutation_counts' = r.counts
    /\ fall_x' = centered_fall_x(play_width, Len(r.mutated))
    /\ fall_y' = top_y
    /\ mode' = "move"
    /\ cursor' = 0
    /\ edits_remaining' = SumCounts(r.counts)
    /\ edits_applied' = 0

Sizes == (MinHeight..MaxHeight) \X (MinWidth..MaxWidth)
SmallSizes == {<<MinHeight - 1, MinWidth>>, <<MinHeight, MinWidth - 1>>}

\* leaderboard.json when the session starts: [{"name": "bob", "score": 10}]
InitFiles == {save_leaderboard(<<[name |-> JStr(<<98, 111, 98>>), score |-> 10]>>)}

\* args and ret of a session, which calls no function alone
NoCall == <<>>

Init ==
    /\ args = NoCall
    /\ ret = NoCall
    /\ leaderboard_file \in InitFiles
    /\ name = <<>>
    /\ score = 0
    /\ multiplier = 1
    /\ landings = 0
    /\ edits_applied = 0
    /\ mode = "move"
    /\ cursor = 0
    /\ base_fall_delay = InitialFallDelay
    /\ fall_delay = InitialFallDelay
    /\ \E size \in Sizes \cup SmallSizes :
          /\ height = size[1]
          /\ width = size[2]
    /\ IF TooSmall(height, width)
       THEN /\ pc = "too_small"
            /\ base_seq = <<>>
            /\ bottom_seq = <<>>
            /\ falling_seq = <<>>
            /\ mutation_counts = NoCounts
            /\ fall_x = 0
            /\ fall_y = 0
            /\ edits_remaining = 0
       ELSE /\ pc = "tick"
            /\ base_seq \in {s \in make_base_sequence(play_width) : IsCanonical(s)}
            /\ bottom_seq = base_seq
            /\ \E r \in RoundOutcomes(base_seq) :
                  /\ falling_seq = r.mutated
                  /\ mutation_counts = r.counts
                  /\ fall_x = centered_fall_x(play_width, Len(r.mutated))
                  /\ edits_remaining = SumCounts(r.counts)
            /\ fall_y = top_y

\* the model follows the session up to its MaxLandings-th landing
Live == landings < MaxLandings

\* lines 235-239: only the quit key leaves the notice
TooSmallQuit ==
    /\ pc = "too_small"
    /\ pc' = "done"
    /\ UNCHANGED <<args, ret, height, width, base_seq, bottom_seq, falling_seq, mutation_counts,
                   fall_x, fall_y, score, multiplier, edits_remaining, mode, cursor,
                   base_fall_delay, fall_delay, name, leaderboard_file, landings,
                   edits_applied>>

\* line 278, the position after the physics step
AfterTick(y) == IF y >= bottom_y THEN "land" ELSE "key"

FallStepInMoveOnly ==
    /\ pc = "tick"
    /\ Live
    /\ mode = "move"
    /\ fall_y' = fall_y + 1
    /\ pc' = AfterTick(fall_y')
    /\ UNCHANGED <<args, ret, height, width, base_seq, bottom_seq, falling_seq, mutation_counts,
                   fall_x, score, multiplier, edits_remaining, mode, cursor,
                   base_fall_delay, fall_delay, name, leaderboard_file, landings,
                   edits_applied>>

\* lines 273-276 with now - last_tick >= fall_delay
FallStep ==
    /\ pc = "tick"
    /\ Live
    /\ fall_y' = fall_y + 1
    /\ pc' = AfterTick(fall_y')
    /\ UNCHANGED <<args, ret, height, width, base_seq, bottom_seq, falling_seq, mutation_counts,
                   fall_x, score, multiplier, edits_remaining, mode, cursor,
                   base_fall_delay, fall_delay, name, leaderboard_file, landings,
                   edits_applied>>

\* lines 273-274 with now - last_tick < fall_delay
NoFallStep ==
    /\ pc = "tick"
    /\ Live
    /\ pc' = AfterTick(fall_y)
    /\ UNCHANGED <<args, ret, height, width, base_seq, bottom_seq, falling_seq, mutation_counts,
                   fall_x, fall_y, score, multiplier, edits_remaining, mode, cursor,
                   base_fall_delay, fall_delay, name, leaderboard_file, landings,
                   edits_applied>>

LandedScoreNoMultiplier(sc, delta, mult) == sc + delta

\* line 280
LandedScore(sc, delta, mult) == sc + delta * mult

LostOrZero(delta) == delta <= 0

LostBelowMinusOne(delta) == delta < -1

\* line 281
Lost(delta) == delta < 0

NextMultiplierNoReset(perfect, m) == IF perfect THEN m * 2 ELSE m

\* the multiplier after a landing that goes on, lines 287-291
NextMultiplier(perfect, m) == IF perfect THEN m * 2 ELSE 1

DecayedDelayNoFloor(d) == (d * 8) \div 10

\* line 296
DecayedDelay(d) == Max(MinFallDelay, (d * 8) \div 10)

DecayStepOfCurrent ==
    /\ fall_delay' = Max(MinFallDelay, (fall_delay * 8) \div 10)
    /\ base_fall_delay' = fall_delay'

\* lines 295-296
DecayStep ==
    /\ fall_delay' = base_fall_delay
    /\ base_fall_delay' = DecayedDelay(fall_delay')

\* line 325
SoftDropDelay(d) == Max(MinFallDelay, d \div 10)

\* lines 279-286: a landing with delta < 0 ends the session in prompt_name
LandingLost ==
    /\ pc = "land"
    /\ Live
    /\ LET res == score_alignment(falling_seq, fall_x, bottom_seq)
       IN  /\ Lost(res.delta)
           /\ score' = LandedScore(score, res.delta, multiplier)
    /\ name' = <<>>
    /\ pc' = "prompt"
    /\ landings' = landings + 1
    /\ UNCHANGED <<args, ret, height, width, base_seq, bottom_seq, falling_seq, mutation_counts,
                   fall_x, fall_y, multiplier, edits_remaining, mode, cursor,
                   base_fall_delay, fall_delay, leaderboard_file, edits_applied>>

\* lines 279-309: a landing with delta >= 0 starts the next round
LandingNext ==
    /\ pc = "land"
    /\ Live
    /\ LET res == score_alignment(falling_seq, fall_x, bottom_seq)
       IN  /\ ~Lost(res.delta)
           /\ score' = LandedScore(score, res.delta, multiplier)
           /\ multiplier' = NextMultiplier(res.perfect, multiplier)
    /\ \E r \in RoundOutcomes(base_seq) : StartRound(r)
    /\ DecayStep
    /\ pc' = "key"
    /\ landings' = landings + 1
    /\ UNCHANGED <<args, ret, height, width, base_seq, bottom_seq, name, leaderboard_file>>

\* the read of line 311 finds a key to handle
KeyRead == pc = "key" /\ Live

\* what no key of the session touches
KeyFrame ==
    UNCHANGED <<args, ret, height, width, base_seq, bottom_seq, mutation_counts, fall_y, score,
                multiplier, base_fall_delay, name, leaderboard_file, landings>>

KeyQuitSubmits ==
    /\ KeyRead
    /\ pc' = "done"
    /\ leaderboard_file' = add_leaderboard_entry(leaderboard_file, <<113>>, score)
    /\ UNCHANGED <<args, ret, height, width, base_seq, bottom_seq, mutation_counts,
                   fall_y, score, multiplier, base_fall_delay, name, landings>>
    /\ UNCHANGED <<falling_seq, fall_x, edits_remaining, mode, cursor, fall_delay,
                   edits_applied>>

\* lines 313-314
KeyQuit ==
    /\ KeyRead
    /\ pc' = "done"
    /\ KeyFrame
    /\ UNCHANGED <<falling_seq, fall_x, edits_remaining, mode, cursor, fall_delay,
                   edits_applied>>

\* lines 315-317
KeyUp ==
    /\ KeyRead
    /\ mode' = "edit_top"
    /\ cursor' = clamp(cursor, 0, Len(falling_seq) - 1)
    /\ pc' = "tick"
    /\ KeyFrame
    /\ UNCHANGED <<falling_seq, fall_x, edits_remaining, fall_delay, edits_applied>>

\* lines 318-319
KeyConfirm ==
    /\ KeyRead
    /\ mode' = "move"
    /\ pc' = "tick"
    /\ KeyFrame
    /\ UNCHANGED <<falling_seq, fall_x, edits_remaining, cursor, fall_delay,
                   edits_applied>>

\* lines 320-321
MoveLeft ==
    /\ KeyRead
    /\ mode = "move"
    /\ fall_x' = clamp(fall_x - 1, 0, play_width - Len(falling_seq))
    /\ pc' = "tick"
    /\ KeyFrame
    /\ UNCHANGED <<falling_seq, edits_remaining, mode, cursor, fall_delay,
                   edits_applied>>

\* lines 322-323
MoveRight ==
    /\ KeyRead
    /\ mode = "move"
    /\ fall_x' = clamp(fall_x + 1, 0, play_width - Len(falling_seq))
    /\ pc' = "tick"
    /\ KeyFrame
    /\ UNCHANGED <<falling_seq, edits_remaining, mode, cursor, fall_delay,
                   edits_applied>>

\* lines 324-325
SoftDrop ==
    /\ KeyRead
    /\ mode = "move"
    /\ fall_delay' = SoftDropDelay(fall_delay)
    /\ pc' = "tick"
    /\ KeyFrame
    /\ UNCHANGED <<falling_seq, fall_x, edits_remaining, mode, cursor, edits_applied>>

\* lines 326-327
CursorLeft ==
    /\ KeyRead
    /\ mode = "edit_top"
    /\ cursor' = clamp(cursor - 1, 0, Len(falling_seq) - 1)
    /\ pc' = "tick"
    /\ KeyFrame
    /\ UNCHANGED <<falling_seq, fall_x, edits_remaining, mode, fall_delay,
                   edits_applied>>

\* lines 328-329
CursorRight ==
    /\ KeyRead
    /\ mode = "edit_top"
    /\ cursor' = clamp(cursor + 1, 0, Len(falling_seq) - 1)
    /\ pc' = "tick"
    /\ KeyFrame
    /\ UNCHANGED <<falling_seq, fall_x, edits_remaining, mode, fall_delay,
                   edits_applied>>

InsertSpaceNoWidthCheck ==
    /\ KeyRead
    /\ mode = "edit_top"
    /\ IF edits_remaining > 0
       THEN /\ falling_seq' = insert_space(falling_seq, cursor)
            /\ fall_x' = clamp(fall_x, 0, play_width - Len(falling_seq'))
            /\ edits_remaining' = edits_remaining - 1
            /\ edits_applied' = edits_applied + 1
       ELSE UNCHANGED <<falling_seq, fall_x, edits_remaining, edits_applied>>
    /\ pc' = "tick"
    /\ KeyFrame
    /\ UNCHANGED <<mode, cursor, fall_delay>>

\* lines 330-334
InsertSpace ==
    /\ KeyRead
    /\ mode = "edit_top"
    /\ IF edits_remaining > 0 /\ Len(falling_seq) < play_width
       THEN /\ falling_seq' = insert_space(falling_seq, cursor)
            /\ fall_x' = clamp(fall_x, 0, play_width - Len(falling_seq'))
            /\ edits_remaining' = edits_remaining - 1
            /\ edits_applied' = edits_applied + 1
       ELSE UNCHANGED <<falling_seq, fall_x, edits_remaining, edits_applied>>
    /\ pc' = "tick"
    /\ KeyFrame
    /\ UNCHANGED <<mode, cursor, fall_delay>>

\* lines 335-340; an IndexError of pop ends the program
DeleteSymbol ==
    /\ KeyRead
    /\ mode = "edit_top"
    /\ IF edits_remaining > 0 /\ falling_seq # <<>>
       THEN IF InRange(falling_seq, cursor)
            THEN /\ falling_seq' = pop(falling_seq, cursor)
                 /\ fall_x' = clamp(fall_x, 0, play_width - Len(falling_seq'))
                 /\ cursor' = clamp(cursor, 0, Len(falling_seq') - 1)
                 /\ edits_remaining' = edits_remaining - 1
                 /\ edits_applied' = edits_applied + 1
                 /\ pc' = "tick"
            ELSE /\ pc' = "crashed"
                 /\ UNCHANGED <<falling_seq, fall_x, cursor, edits_remaining,
                                edits_applied>>
       ELSE /\ pc' = "tick"
            /\ UNCHANGED <<falling_seq, fall_x, cursor, edits_remaining, edits_applied>>
    /\ KeyFrame
    /\ UNCHANGED <<mode, fall_delay>>

\* lines 341-346; an IndexError of falling_seq[cursor] ends the program
Substitute ==
    /\ KeyRead
    /\ mode = "edit_top"
    /\ \E key \in BaseKeys \cap GameKeys :
          IF edits_remaining > 0 /\ falling_seq # <<>>
          THEN IF InRange(falling_seq, cursor)
               THEN LET new_base == UpperBase(key)
                    IN  IF new_base \in Nucleotides
                           /\ getitem(falling_seq, cursor) # new_base
                        THEN /\ falling_seq' = setitem(falling_seq, cursor, new_base)
                             /\ edits_remaining' = edits_remaining - 1
                             /\ edits_applied' = edits_applied + 1
                             /\ pc' = "tick"
                        ELSE /\ pc' = "tick"
                             /\ UNCHANGED <<falling_seq, edits_remaining, edits_applied>>
               ELSE /\ pc' = "crashed"
                    /\ UNCHANGED <<falling_seq, edits_remaining, edits_applied>>
          ELSE /\ pc' = "tick"
               /\ UNCHANGED <<falling_seq, edits_remaining, edits_applied>>
    /\ KeyFrame
    /\ UNCHANGED <<fall_x, mode, cursor, fall_delay>>

\* the keys no branch of lines 313-346 handles in the given mode
UnhandledKeys(m) ==
    IF m = "move"
    THEN GameKeys \ (QuitKeys \cup ConfirmKeys \cup {KEY_UP, KEY_LEFT, KEY_RIGHT, KEY_DOWN})
    ELSE GameKeys \ (QuitKeys \cup ConfirmKeys \cup SpaceKeys \cup BackspaceKeys
                     \cup BaseKeys \cup {KEY_UP, KEY_LEFT, KEY_RIGHT})

\* a key that falls through the whole chain of lines 313-346
KeyIgnored ==
    /\ KeyRead
    /\ \E key \in UnhandledKeys(mode) : pc' = "tick"
    /\ KeyFrame
    /\ UNCHANGED <<falling_seq, fall_x, edits_remaining, mode, cursor, fall_delay,
                   edits_applied>>

\* line 312: getch() returned -1
NoKey ==
    /\ KeyRead
    /\ pc' = "tick"
    /\ KeyFrame
    /\ UNCHANGED <<falling_seq, fall_x, edits_remaining, mode, cursor, fall_delay,
                   edits_applied>>

-----------------------------------------------------------------------------
(* prompt_name and the end of the session *)

\* what prompt_name and show_leaderboard leave alone
PromptFrame ==
    UNCHANGED <<args, ret, height, width, base_seq, bottom_seq, falling_seq, mutation_counts,
                fall_x, fall_y, score, multiplier, edits_remaining, mode, cursor,
                base_fall_delay, fall_delay, landings, edits_applied>>

\* lines 160-163 and 283-285: Enter returns a non-empty name, which is stored;
\* an exception of add_leaderboard_entry ends the program
PromptEnter ==
    /\ pc = "prompt"
    /\ IF name # <<>>
       THEN /\ leaderboard_file' = add_leaderboard_entry(leaderboard_file, name, score)
            /\ pc' = IF AddError(leaderboard_file, name, score) = "none"
                     THEN "leaderboard"
                     ELSE "crashed"
       ELSE UNCHANGED <<leaderboard_file, pc>>
    /\ UNCHANGED name
    /\ PromptFrame

\* lines 164-166 and 283-286: Escape returns "", nothing is stored
PromptEscape ==
    /\ pc = "prompt"
    /\ pc' = "done"
    /\ UNCHANGED <<name, leaderboard_file>>
    /\ PromptFrame

\* lines 167-168
PromptBackspace ==
    /\ pc = "prompt"
    /\ name' = SubSeq(name, 1, Len(name) - 1)
    /\ UNCHANGED <<pc, leaderboard_file>>
    /\ PromptFrame

\* lines 169-172: any other key; chr(key) for 0..255, "" for the rest
PromptType(keys) ==
    /\ pc = "prompt"
    /\ \E key \in keys \ (EnterKeys \cup EscapeKeys \cup BackspaceKeys) :
          IF 0 <= key /\ key <= 255 /\ IsAsciiAlpha(key) /\ Len(name) < MAX_NAME_LEN
          THEN name' = Append(name, key)
          ELSE UNCHANGED name
    /\ UNCHANGED <<pc, leaderboard_file>>
    /\ PromptFrame

\* the letters typed in a session, up to MaxTyped of them
PromptChar ==
    /\ PromptType(PromptKeys)
    /\ Len(name') <= MaxTyped

\* lines 192 and 286: any key leaves show_leaderboard
LeaderboardKey ==
    /\ pc = "leaderboard"
    /\ pc' = "done"
    /\ UNCHANGED <<name, leaderboard_file>>
    /\ PromptFrame

Next ==
    \/ TooSmallQuit
    \/ FallStep
    \/ NoFallStep
    \/ LandingLost
    \/ LandingNext
    \/ KeyQuit
    \/ KeyUp
    \/ KeyConfirm
    \/ MoveLeft
    \/ MoveRight
    \/ SoftDrop
    \/ CursorLeft
    \/ CursorRight
    \/ InsertSpace
    \/ DeleteSymbol
    \/ Substitute
    \/ KeyIgnored
    \/ NoKey
    \/ PromptEnter
    \/ PromptEscape
    \/ PromptBackspace
    \/ PromptChar
    \/ LeaderboardKey

Spec == Init /\ [][Next]_vars

\* a step of the loop of lines 272-366, which never waits: getch() does not
\* block (line 224) and every iteration ends after its sleep of 0.01 s
LoopIteration == (pc \in {"tick", "land", "key"}) /\ Next

\* The loop keeps iterating, and as the clock advances by at least 0.01 s per
\* iteration while no key handler writes last_tick, the test of line 274 holds
\* at some iteration and the fall step is taken then.

\* the sessions followed to the end of their rounds: the narrowest terminals
InitNarrow == Init /\ width <= MinWidth

SpecFair ==
    InitNarrow /\ [][Next]_vars /\ WF_vars(LoopIteration) /\ SF_vars(FallStep)

-----------------------------------------------------------------------------
(* score_alignment and new_falling_segment called alone *)

SeqsUpTo(S, n) == UNION {[1..k -> S] : k \in 0..n}

\* no session runs while a function is called alone
NoSession ==
    /\ height = 0
    /\ width = 0
    /\ base_seq = <<>>
    /\ bottom_seq = <<>>
    /\ falling_seq = <<>>
    /\ mutation_counts = NoCounts
    /\ fall_x = 0
    /\ fall_y = 0
    /\ score = 0
    /\ multiplier = 1
    /\ edits_remaining = 0
    /\ mode = "move"
    /\ cursor = 0
    /\ base_fall_delay = InitialFallDelay
    /\ fall_delay = InitialFallDelay
    /\ name = <<>>
    /\ leaderboard_file = MissingFile
    /\ pc = "call"
    /\ landings = 0
    /\ edits_applied = 0

\* the symbols of the sequences given to the scorer
ScoreSymbols == {"A", "T", Blank}

InitScore ==
    /\ NoSession
    /\ args \in [falling : SeqsUpTo(ScoreSymbols, MaxLen),
                 fall_x  : (-MaxLen)..MaxLen,
                 bottom  : SeqsUpTo(ScoreSymbols, MaxLen)]
    /\ ret = NoCall

\* one call of score_alignment(falling, fall_x, bottom, bottom_y)
ScoreCall ==
    /\ pc = "call"
    /\ pc' = "returned"
    /\ ret' = score_alignment(args.falling, args.fall_x, args.bottom)
    /\ UNCHANGED <<args, height, width, base_seq, bottom_seq, falling_seq,
                   mutation_counts, fall_x, fall_y, score, multiplier, edits_remaining,
                   mode, cursor, base_fall_delay, fall_delay, name, leaderboard_file,
                   landings, edits_applied>>

NextScore == ScoreCall

SpecScore == InitScore /\ [][NextScore]_vars

\* the scorer called again with one symbol of the falling segment made blank
BlankCall ==
    /\ pc \in {"returned", "blanked"}
    /\ \E i \in 0..(Len(args.falling) - 1) :
          /\ args.falling[i + 1] # Blank
          /\ args' = [args EXCEPT !.falling[i + 1] = Blank]
    /\ ret' = score_alignment(args'.falling, args'.fall_x, args'.bottom)
    /\ pc' = "blanked"
    /\ UNCHANGED <<height, width, base_seq, bottom_seq, falling_seq,
                   mutation_counts, fall_x, fall_y, score, multiplier, edits_remaining,
                   mode, cursor, base_fall_delay, fall_delay, name, leaderboard_file,
                   landings, edits_applied>>

NextBlank == ScoreCall \/ BlankCall

SpecBlank == InitScore /\ [][NextBlank]_vars

InitGen ==
    /\ NoSession
    /\ args \in [base_seq : {s \in SeqsUpTo(Nucleotides, MaxRefLen) : IsCanonical(s)},
                 seg_len  : 0..(MaxRefLen + 1)]
    /\ ret = NoCall

\* one call of new_falling_segment(base_seq, seg_len), with any outcome of its draws
GenCall ==
    /\ pc = "call"
    /\ pc' = "returned"
    /\ ret' \in new_falling_segment(args.base_seq, args.seg_len)
    /\ UNCHANGED <<args, height, width, base_seq, bottom_seq, falling_seq,
                   mutation_counts, fall_x, fall_y, score, multiplier, edits_remaining,
                   mode, cursor, base_fall_delay, fall_delay, name, leaderboard_file,
                   landings, edits_applied>>

NextGen == GenCall

SpecGen == InitGen /\ [][NextGen]_vars

-----------------------------------------------------------------------------
(* load_leaderboard, add_leaderboard_entry and sorted_leaderboard called alone *)

\* no game runs while the store is called alone
NoGame ==
    /\ height = 0
    /\ width = 0
    /\ base_seq = <<>>
    /\ bottom_seq = <<>>
    /\ falling_seq = <<>>
    /\ mutation_counts = NoCounts
    /\ fall_x = 0
    /\ fall_y = 0
    /\ score = 0
    /\ multiplier = 1
    /\ edits_remaining = 0
    /\ mode = "move"
    /\ cursor = 0
    /\ base_fall_delay = InitialFallDelay
    /\ fall_delay = InitialFallDelay
    /\ name = <<>>
    /\ landings = 0
    /\ edits_applied = 0

GameUnchanged ==
    UNCHANGED <<height, width, base_seq, bottom_seq, falling_seq, mutation_counts,
                fall_x, fall_y, score, multiplier, edits_remaining, mode, cursor,
                base_fall_delay, fall_delay, name, landings, edits_applied>>

\* the values of "name" and "score" in the objects of the file:
\* no key, "b", 5 / no key, 10, "7", "b", null
StoreNames == {JAbsent, JStr(<<98>>), JInt(5)}
StoreScores == {JAbsent, JInt(10), JStr(<<55>>), JStr(<<98>>), JNull}

\* the items of the list in the file: 5, null and the objects
StoreItems ==
    {JInt(5), JNull} \cup {JDict(nm, sc) : nm \in StoreNames, sc \in StoreScores}

StoreFiles ==
    {MissingFile, UnreadableFile, NotJsonFile, NotListFile}
    \cup {[kind |-> "list", items |-> items] : items \in SeqsUpTo(StoreItems, MaxItems)}

\* the entries the model adds: (b, 10), (A, 10), (a, 10), (a, -3)
AddedEntries ==
    {[name |-> <<98>>, score |-> 10], [name |-> <<65>>, score |-> 10],
     [name |-> <<97>>, score |-> 10], [name |-> <<97>>, score |-> -3]}

\* args: the file before the first call and the entries added since
InitStore ==
    /\ NoGame
    /\ leaderboard_file \in StoreFiles
    /\ args = [file |-> leaderboard_file, added |-> <<>>]
    /\ ret = NoCall
    /\ pc = "call"

\* one call of load_leaderboard()
LoadCall ==
    /\ pc = "call"
    /\ IF LoadError(leaderboard_file) = "none"
       THEN /\ pc' = "returned"
            /\ ret' = load_leaderboard(leaderboard_file)
       ELSE /\ pc' = "raised"
            /\ ret' = NoCall
    /\ UNCHANGED <<args, leaderboard_file>>
    /\ GameUnchanged

\* one call of add_leaderboard_entry(name, score); it returns the entries saved
AddCall ==
    /\ pc = "call"
    /\ Len(args.added) < MaxAdds
    /\ \E e \in AddedEntries :
          /\ leaderboard_file' = add_leaderboard_entry(leaderboard_file, e.name, e.score)
          /\ IF AddError(leaderboard_file, e.name, e.score) = "none"
             THEN /\ pc' = "call"
                  /\ args' = [args EXCEPT !.added = Append(@, e)]
                  /\ ret' = load_leaderboard(leaderboard_file')
             ELSE /\ pc' = "crashed"
                  /\ UNCHANGED <<args, ret>>
    /\ GameUnchanged

NextStore == LoadCall \/ AddCall

SpecStore == InitStore /\ [][NextStore]_vars

\* the entries given to sorted_leaderboard: bob, amy, Amy with 10 or 5
RankEntries ==
    {[name |-> JStr(nm), score |-> sc] :
        nm \in {<<98, 111, 98>>, <<97, 109, 121>>, <<65, 109, 121>>}, sc \in {10, 5}}

InitRank ==
    /\ NoGame
    /\ leaderboard_file = MissingFile
    /\ args \in SeqsUpTo(RankEntries, MaxEntries)
    /\ ret = NoCall
    /\ pc = "call"

\* one call of sorted_leaderboard(entries)
RankCall ==
    /\ pc = "call"
    /\ pc' = "returned"
    /\ ret' = sorted_leaderboard(args)
    /\ UNCHANGED <<args, leaderboard_file>>
    /\ GameUnchanged

NextRank == RankCall

SpecRank == InitRank /\ [][NextRank]_vars

-----------------------------------------------------------------------------
(* prompt_name called alone, with what lines 283-286 do with its result *)

\* the keys pressed: Enter, Escape, Backspace, q, Z, 1, e-acute, KEY_UP
AloneKeys ==
    EnterKeys \cup EscapeKeys \cup BackspaceKeys \cup {113, 90, 49, 233, KEY_UP}

InitPrompt ==
    /\ NoGame
    /\ leaderboard_file \in {MissingFile} \cup InitFiles
    /\ args = NoCall
    /\ ret = NoCall
    /\ pc = "prompt"

PromptTypeAlone == PromptType(AloneKeys)

NextPrompt ==
    \/ PromptEnter
    \/ PromptEscape
    \/ PromptBackspace
    \/ PromptTypeAlone
    \/ LeaderboardKey

SpecPrompt == InitPrompt /\ [][NextPrompt]_vars

-----------------------------------------------------------------------------
(* The rounds of a session and their fall delays: what lines 292-298 and     *)
(* 315-325 do to mode, fall_delay and base_fall_delay, over many landings    *)

InitRounds ==
    /\ NoGame
    /\ leaderboard_file = MissingFile
    /\ args = NoCall
    /\ ret = NoCall
    /\ pc = "key"

RoundsFrame ==
    UNCHANGED <<args, ret, height, width, base_seq, bottom_seq, falling_seq,
                mutation_counts, fall_x, fall_y, score, multiplier, edits_remaining,
                cursor, name, leaderboard_file, pc, edits_applied>>

\* lines 292-298: a landing with delta >= 0
RoundLanding ==
    /\ landings < MaxRounds
    /\ landings' = landings + 1
    /\ DecayStep
    /\ mode' = "move"
    /\ RoundsFrame

\* lines 324-325
RoundSoftDrop ==
    /\ mode = "move"
    /\ fall_delay' = SoftDropDelay(fall_delay)
    /\ UNCHANGED <<mode, base_fall_delay, landings>>
    /\ RoundsFrame

\* lines 315-316
RoundKeyUp ==
    /\ mode' = "edit_top"
    /\ UNCHANGED <<fall_delay, base_fall_delay, landings>>
    /\ RoundsFrame

\* lines 318-319
RoundKeyConfirm ==
    /\ mode' = "move"
    /\ UNCHANGED <<fall_delay, base_fall_delay, landings>>
    /\ RoundsFrame

NextRounds ==
    \/ RoundLanding
    \/ RoundSoftDrop
    \/ RoundKeyUp
    \/ RoundKeyConfirm

SpecRounds == InitRounds /\ [][NextRounds]_vars

-----------------------------------------------------------------------------
(* Properties *)

\* the session is in the loop of lines 272-366
Running == pc \in {"tick", "land", "key"}

\* C1: at every landing the score becomes the score before it plus the
\* scorer's delta times the multiplier held before the landing, and no other
\* step (tick, key, prompt) changes the score.
C1_ScoreAtLanding ==
    [][IF pc = "land"
       THEN score' = score
                     + score_alignment(falling_seq, fall_x, bottom_seq).delta * multiplier
       ELSE score' = score]_vars

\* a second landing was scored with the multiplier 2 of a perfect first one
C1_Witness == landings = 2 /\ score >= 3 * PerfectBonus

\* a segment and its counts can come from the mutation of a window of w symbols:
\* each symbol is mutated at most once, a deletion takes a symbol away, an
\* insertion adds one, and a window deleted as a whole leaves one symbol
GeneratedFrom(segment, counts, w) ==
    /\ counts.deletions + counts.snps + counts.insertions <= w
    /\ Len(segment) = IF counts.deletions = w
                      THEN 1
                      ELSE w - counts.deletions + counts.insertions
    /\ \A i \in 1..Len(segment) : segment[i] \in {"A", "T", "G", "C"}

\* C2: a landing ends the session exactly when its delta is negative; with
\* delta >= 0 (0 included) the next round starts with a non-empty segment of
\* the generator at the top row; the prompt is entered in no other way and
\* leads only to the end of the session.
C2_LandingOutcome ==
    [][/\ pc = "land" =>
            IF score_alignment(falling_seq, fall_x, bottom_seq).delta < 0
            THEN pc' = "prompt"
            ELSE /\ pc' = "key"
                 /\ fall_y' = top_y
                 /\ GeneratedFrom(falling_seq', mutation_counts',
                                  Min(SegLen, Len(base_seq)))
       /\ (pc' = "prompt" /\ pc # "prompt") => pc = "land"
       /\ pc \in {"prompt", "leaderboard"} => pc' \in {"prompt", "leaderboard", "done"}
      ]_vars

\* a first landing went on and the second one ended the session
C2_Witness == pc = "prompt" /\ landings = 2

\* C3 as stated: after every landing the multiplier is doubled if the landing
\* was perfect and 1 if not, the landing that ends the session included.
C3_Original ==
    [][pc = "land" =>
          multiplier' = IF score_alignment(falling_seq, fall_x, bottom_seq).perfect
                        THEN 2 * multiplier
                        ELSE 1]_vars

\* C3 amended: a perfect landing doubles the multiplier, a non-perfect landing
\* with delta >= 0 sets it to 1, a landing with delta < 0 (which ends the
\* session) leaves it as it was; the multiplier is a positive integer.
C3_Multiplier ==
    /\ [](multiplier \in Nat /\ multiplier >= 1)
    /\ [][pc = "land" =>
             LET res == score_alignment(falling_seq, fall_x, bottom_seq)
             IN  multiplier' = IF res.perfect THEN 2 * multiplier
                               ELSE IF res.delta >= 0 THEN 1
                               ELSE multiplier]_vars

\* the session ended at a landing and the multiplier is still 2
C3_Witness == pc = "prompt" /\ multiplier = 2

\* the positions of falling compared at offset x with bottom
ComparablePositions(falling, x, bottom) ==
    {i \in 0..(Len(falling) - 1) :
        /\ x + i \in 0..(Len(bottom) - 1)
        /\ falling[i + 1] # " "
        /\ bottom[x + i + 1] # " "}

\* C4: score_alignment returns matches - mismatches over the comparable
\* positions, plus 50 if perfect; perfect means some position is comparable
\* and all comparable positions match.  AAAA over AAAA at 0 gives (54, true),
\* ATAT over AATT at 0 gives (0, false).
C4_ScoreFormula ==
    pc = "returned" =>
        LET comparable == ComparablePositions(args.falling, args.fall_x, args.bottom)
            matches    == {i \in comparable :
                              args.falling[i + 1] = args.bottom[args.fall_x + i + 1]}
            perfect    == comparable # {} /\ matches = comparable
        IN  /\ ret.perfect = perfect
            /\ ret.delta = Cardinality(matches) - Cardinality(comparable \ matches)
                           + (IF perfect THEN 50 ELSE 0)
            /\ args = [falling |-> <<"A", "A", "A", "A">>, fall_x |-> 0,
                       bottom |-> <<"A", "A", "A", "A">>]
                   => ret = [delta |-> 54, perfect |-> TRUE]
            /\ args = [falling |-> <<"A", "T", "A", "T">>, fall_x |-> 0,
                       bottom |-> <<"A", "A", "T", "T">>]
                   => ret = [delta |-> 0, perfect |-> FALSE]

\* a segment with a blank, a position past the reference and a perfect rest
C4_Witness ==
    /\ pc = "returned"
    /\ args = [falling |-> <<"A", " ", "T", "A">>, fall_x |-> 1,
               bottom |-> <<"T", "A", "T", "T">>]
    /\ ret = [delta |-> 52, perfect |-> TRUE]

\* C5: in a running session 0 <= fall_x and fall_x + len(falling_seq) <= play_width.
C5_SegmentInField ==
    Running => fall_x >= 0 /\ fall_x + Len(falling_seq) <= play_width

\* C6: in a running session the cursor is 0 on an empty segment and in
\* [0, len - 1] on any other one, and no edit raises an IndexError.
C6_CursorInSegment ==
    /\ pc # "crashed"
    /\ Running => IF falling_seq = <<>>
                  THEN cursor = 0
                  ELSE cursor \in 0..(Len(falling_seq) - 1)

\* the last symbol of the segment was deleted
C6_Witness ==
    Running /\ mode = "edit_top" /\ falling_seq = <<>> /\ edits_applied >= 1

\* C7: the budget is never negative, budget plus edits applied in the round
\* is deletions + snps + insertions of the round, every change a key makes to
\* the segment is counted as one edit, and a round starts with no edit applied.
C7_EditBudget ==
    /\ [](Running =>
            /\ edits_remaining >= 0
            /\ edits_applied + edits_remaining
                 = mutation_counts.deletions + mutation_counts.snps
                   + mutation_counts.insertions)
    /\ [][/\ (pc = "key" /\ falling_seq' # falling_seq)
                => edits_applied' = edits_applied + 1
          /\ (pc = "land" /\ pc' = "key") => edits_applied' = 0]_vars

\* a round of two mutations in which two edits were applied
C7_Witness == Running /\ edits_applied = 2 /\ edits_remaining = 0

\* C8: the up key is handled in both modes and gives Edit, Enter or Escape is
\* handled in both modes and gives Move, the first round and every round after
\* a landing start in Move, and no other step changes the mode.
C8_ModeMachine ==
    /\ mode = "move"
    /\ [](KeyRead => ENABLED KeyUp /\ ENABLED KeyConfirm)
    /\ [][/\ KeyUp => mode' = "edit_top"
          /\ KeyConfirm => mode' = "move"
          /\ (pc = "land" /\ pc' = "key") => mode' = "move"
          /\ mode' # mode => KeyUp \/ KeyConfirm \/ pc = "land"]_vars

\* Edit mode in the second round: entered again after the reset of the landing
C8_Witness == Running /\ landings = 1 /\ mode = "edit_top"

\* a step in which the key read is q or Q: in the loop of game(), or typed in
\* prompt_name
QuitKeyStep ==
    \/ KeyQuit
    \/ /\ pc = "prompt"
       /\ Len(name') = Len(name) + 1
       /\ name'[Len(name')] \in QuitKeys

\* C9 as stated: from any state of the session the quit key ends the session
\* at once and the leaderboard file stays as it was.
C9_Original ==
    [][QuitKeyStep => pc' = "done" /\ leaderboard_file' = leaderboard_file]_vars

\* C9 amended: whenever the loop of game() reads a key the quit key can be
\* read, it ends the session at once and leaves the leaderboard file as it
\* was; the file changes only by Enter on a non-empty name in the prompt.
C9_QuitInGame ==
    /\ [](KeyRead => ENABLED KeyQuit)
    /\ [][/\ KeyQuit => pc' = "done" /\ leaderboard_file' = leaderboard_file
          /\ leaderboard_file' # leaderboard_file => pc = "prompt" /\ name # <<>>]_vars

\* the session was quit in Edit mode during its second round
C9_Witness == pc = "done" /\ landings = 1 /\ fall_y < bottom_y /\ mode = "edit_top"

\* C10: new_falling_segment returns a non-empty segment, and a start index
\* that is 0 when seg_len >= len(base_seq) and in [0, len(base_seq) - seg_len]
\* otherwise.
C10_SegmentAndStart ==
    pc = "returned" =>
        /\ Len(ret.mutated) >= 1
        /\ IF args.seg_len >= Len(args.base_seq)
           THEN ret.start = 0
           ELSE ret.start \in 0..(Len(args.base_seq) - args.seg_len)

\* every symbol of a window of three was deleted
C10_Witness ==
    /\ pc = "returned"
    /\ Len(args.base_seq) = 3
    /\ args.seg_len = 3
    /\ ret.counts.deletions = 3

\* a persisted state that is no list of records with a string name and an
\* integer score
Malformed(file) ==
    \/ file.kind # "list"
    \/ \E i \in 1..Len(file.items) :
          \/ file.items[i].type # "dict"
          \/ /\ file.items[i].type = "dict"
             /\ \/ file.items[i].score.type \notin {"int", "absent"}
                \/ file.items[i].name.type \notin {"str", "absent"}

\* C11: load_leaderboard never raises, and it returns an empty list for every
\* missing, unreadable or malformed file: no JSON, JSON that is no list, a
\* list with items that are no records, records whose score or name has the
\* wrong type.
C11_LoadTotal ==
    /\ pc # "raised"
    /\ (pc = "returned" /\ Malformed(leaderboard_file)) => ret = <<>>

\* the entries a file written by save_leaderboard holds
StoredEntries(file) ==
    [i \in 1..Len(file.items) |->
        [name |-> file.items[i].name, score |-> file.items[i].score.val[1]]]

Count(seq, e) == Cardinality({i \in 1..Len(seq) : seq[i] = e})

\* descending score and, among equal scores, ascending lower-cased name
RankedOrder(seq) ==
    \A i \in 1..(Len(seq) - 1) :
        \/ seq[i].score > seq[i + 1].score
        \/ /\ seq[i].score = seq[i + 1].score
           /\ ~StrLess(Lower(seq[i + 1].name.val), Lower(seq[i].name.val))

\* the entry of a name typed and a score
Entry(nm, sc) == [name |-> JStr(nm), score |-> sc]

\* C12: every call of add_leaderboard_entry leaves in the file the entries
\* loaded before the call and the new entry, each as often as before (the new
\* one once more), in ranked order; after any sequence of adds that starts
\* from a missing file the file holds exactly the added entries, ranked.
C12_AddRanked ==
    /\ [](pc = "call" /\ args.file = MissingFile =>
            LET stored == StoredEntries(leaderboard_file)
            IN  /\ RankedOrder(stored)
                /\ Len(stored) = Len(args.added)
                /\ \A e \in AddedEntries :
                      Count(stored, Entry(e.name, e.score)) = Count(args.added, e))
    /\ [][AddCall =>
             /\ pc' = "call"
             /\ LET before == load_leaderboard(leaderboard_file)
                    after  == StoredEntries(leaderboard_file')
                    added  == args'.added[Len(args'.added)]
                    new    == Entry(added.name, added.score)
                IN  /\ args'.added # args.added
                    /\ RankedOrder(after)
                    /\ Len(after) = Len(before) + 1
                    /\ Count(after, new) = Count(before, new) + 1
                    /\ \A i \in 1..Len(before) :
                          before[i] # new =>
                              Count(after, before[i]) = Count(before, before[i])
          ]_vars

\* the two entries have the same sort key
SameKey(a, b) == a.score = b.score /\ Lower(a.name.val) = Lower(b.name.val)

\* the entries of seq with the sort key of e, in their order
KeyClass(seq, e) == LET HasKey(x) == SameKey(x, e) IN SelectSeq(seq, HasKey)

\* C13: sorted_leaderboard orders by descending score and, among equal
\* scores, by ascending lower-cased name; ranking a ranked list changes
\* nothing; the result is a permutation of the input; entries equal on both
\* keys keep their input order.  (bob,10), (amy,10) gives (amy,10), (bob,10).
C13_Rank ==
    pc = "returned" =>
        /\ RankedOrder(ret)
        /\ sorted_leaderboard(ret) = ret
        /\ Len(ret) = Len(args)
        /\ \A e \in RankEntries :
              /\ Count(ret, e) = Count(args, e)
              /\ KeyClass(ret, e) = KeyClass(args, e)
        /\ args = <<Entry(<<98, 111, 98>>, 10), Entry(<<97, 109, 121>>, 10)>>
               => ret = <<Entry(<<97, 109, 121>>, 10), Entry(<<98, 111, 98>>, 10)>>

\* (bob,5), (amy,10), (Amy,10) is ranked: amy stays before Amy
C13_Witness ==
    /\ pc = "returned"
    /\ args = <<Entry(<<98, 111, 98>>, 5), Entry(<<97, 109, 121>>, 10),
                Entry(<<65, 109, 121>>, 10)>>
    /\ ret = <<Entry(<<97, 109, 121>>, 10), Entry(<<65, 109, 121>>, 10),
               Entry(<<98, 111, 98>>, 5)>>

\* a name that is not empty, has at most 12 characters and only the letters
\* A-Z and a-z
ValidName(nm) ==
    /\ nm # <<>>
    /\ Len(nm) <= 12
    /\ \A i \in 1..Len(nm) : nm[i] \in (65..90) \cup (97..122)

\* C14: every entry written to the leaderboard file has a non-empty name of
\* at most 12 ASCII letters, whatever keys are pressed in the prompt; Enter on
\* an empty name stays in the prompt, only Escape leaves it then, and Escape
\* writes nothing.
C14_NamesWritten ==
    [][/\ leaderboard_file' # leaderboard_file =>
             /\ pc = "prompt" /\ pc' = "leaderboard"
             /\ ValidName(name)
             /\ Count(StoredEntries(leaderboard_file'), Entry(name, score))
                  = Count(StoredEntries(leaderboard_file), Entry(name, score)) + 1
             /\ Len(leaderboard_file'.items) = Len(leaderboard_file.items) + 1
       /\ (pc = "prompt" /\ name = <<>> /\ pc' # "prompt") =>
             pc' = "done" /\ leaderboard_file' = leaderboard_file
       /\ (pc = "prompt" /\ pc' = "done") => leaderboard_file' = leaderboard_file
       /\ (pc = "prompt" /\ pc' = "leaderboard") => leaderboard_file' # leaderboard_file
      ]_vars

\* a name of twelve letters was entered after a thirteenth key was refused
C14_Witness ==
    /\ pc = "leaderboard"
    /\ Len(name) = 12
    /\ \E i \in 1..Len(leaderboard_file.items) : leaderboard_file.items[i].name = JStr(name)

\* C15: fall_delay and base_fall_delay are at least 0.005 s (5000
\* microseconds) in every reachable state, after any soft drops and decays.
C15_DelayFloor == fall_delay >= 5000 /\ base_fall_delay >= 5000

\* the decay of the rounds alone has brought both delays down to the floor
C15_Witness == fall_delay = 5000 /\ base_fall_delay = 5000 /\ landings >= 21

\* the delay a round starts with after n landings: 0.5 s for the first two
\* rounds, then 0.8 times the one before, not below 0.005 s
RECURSIVE StartDelay(_)
StartDelay(n) ==
    IF n <= 1 THEN 500000
    ELSE LET decayed == (StartDelay(n - 1) * 8) \div 10
         IN  IF decayed < 5000 THEN 5000 ELSE decayed

\* C19: the delay a round starts with is a function of the number of landings
\* alone and is never greater than the one the round before started with; a
\* soft drop divides the current delay by 10 (not below the floor) and changes
\* the delay of its own round only; no other key changes a delay.
C19_DelayAcrossRounds ==
    /\ [](fall_delay <= StartDelay(landings))
    /\ [][/\ landings' # landings =>
                /\ landings' = landings + 1
                /\ fall_delay' = StartDelay(landings')
                /\ fall_delay' <= StartDelay(landings)
          /\ landings' = landings =>
                /\ base_fall_delay' = base_fall_delay
                /\ \/ fall_delay' = fall_delay
                   \/ /\ mode = "move"
                      /\ fall_delay' < fall_delay
                      /\ fall_delay' = (IF fall_delay \div 10 < 5000
                                        THEN 5000 ELSE fall_delay \div 10)
         ]_vars

\* the fourth round has started with 0.32 s, the third one had 0.4 s
C19_Witness == landings = 3 /\ fall_delay = 320000 /\ base_fall_delay = 256000

\* what position i of the falling segment adds to the score: 1 for a match,
\* -1 for a mismatch, 0 if it is not compared
Contribution(falling, x, bottom, i) ==
    IF x + i < 0 \/ x + i >= Len(bottom) THEN 0
    ELSE IF falling[i + 1] = " " \/ bottom[x + i + 1] = " " THEN 0
    ELSE IF falling[i + 1] = bottom[x + i + 1] THEN 1
    ELSE -1

\* the position at which the falling segment of the next state has a new blank
BlankedAt(i) ==
    /\ i < Len(args.falling)
    /\ args.falling[i + 1] # " "
    /\ args' = [args EXCEPT !.falling[i + 1] = " "]

\* C16 as stated: making one position of the falling segment blank changes
\* the delta returned by exactly minus the contribution of that position.
C16_Original ==
    [][\A i \in 0..(MaxLen - 1) :
          (pc # "call" /\ BlankedAt(i)) =>
              ret'.delta = ret.delta
                           - Contribution(args.falling, args.fall_x, args.bottom, i)]_vars

\* the delta without the bonus of a perfect alignment
RawDelta(r) == r.delta - (IF r.perfect THEN 50 ELSE 0)

\* C16 amended: the delta without the perfect bonus is a sum of independent
\* contributions: making one position blank changes it by exactly minus the
\* contribution of that position; the delta returned changes by that amount,
\* plus 50 if the alignment becomes perfect, minus 50 if it stops being so.
C16_RawDeltaAdditive ==
    [][\A i \in 0..(MaxLen - 1) :
          (pc # "call" /\ BlankedAt(i)) =>
              LET own == Contribution(args.falling, args.fall_x, args.bottom, i)
              IN  /\ RawDelta(ret') = RawDelta(ret) - own
                  /\ ret'.delta = ret.delta - own
                                  + (IF ret'.perfect THEN 50 ELSE 0)
                                  - (IF ret.perfect THEN 50 ELSE 0)]_vars

\* a mismatching symbol was made blank and the rest is a perfect alignment
C16_Witness ==
    /\ pc = "blanked"
    /\ args = [falling |-> <<"A", " ">>, fall_x |-> 0, bottom |-> <<"A", "A">>]
    /\ ret = [delta |-> 51, perfect |-> TRUE]

\* the session state the claim lists: nothing of it changes
SessionSame ==
    UNCHANGED <<falling_seq, fall_x, cursor, edits_remaining, mode, score, multiplier,
                fall_y, fall_delay>>

\* C17: a key that cannot take effect changes nothing of the session state and
\* raises no error: left/right at the bound (offset or cursor), space on a
\* segment that fills the field, backspace on an empty segment, an edit key
\* with no budget left, a substitution that leaves the segment as it is, an edit
\* key in Move mode, an unhandled key; the budget goes down by 1 exactly when
\* the segment changes.
C17_NoOpKeys ==
    [][pc = "key" =>
          /\ pc' # "crashed"
          /\ (MoveLeft /\ fall_x = 0) => SessionSame
          /\ (MoveRight /\ fall_x + Len(falling_seq) >= play_width) => SessionSame
          /\ (CursorLeft /\ cursor = 0) => SessionSame
          /\ (CursorRight /\ cursor + 1 >= Len(falling_seq)) => SessionSame
          /\ (InsertSpace /\ Len(falling_seq) >= play_width) => SessionSame
          /\ (DeleteSymbol /\ falling_seq = <<>>) => SessionSame
          /\ ((InsertSpace \/ DeleteSymbol \/ Substitute) /\ edits_remaining = 0)
                => SessionSame
          /\ (Substitute /\ falling_seq' = falling_seq) => SessionSame
          /\ (KeyIgnored \/ NoKey) => SessionSame
          /\ mode = "move" =>
                /\ falling_seq' = falling_seq
                /\ cursor' = cursor
                /\ edits_remaining' = edits_remaining
          /\ edits_remaining' \in {edits_remaining, edits_remaining - 1}
          /\ (edits_remaining' = edits_remaining - 1) <=> (falling_seq' # falling_seq)
      ]_vars

\* Edit mode with one edit applied, one left and a segment that fills the field
C17_Witness ==
    /\ pc = "tick"
    /\ mode = "edit_top"
    /\ edits_applied = 1
    /\ edits_remaining = 1
    /\ Len(falling_seq) = play_width

\* the safety part of C18: a round starts at the top row, the segment goes
\* down by one row per fall step and in no other way, at most one fall step is
\* taken per iteration, a key is read only above the landing row, a key leaves
\* the row as it is, does not raise the fall delay, and is followed by the time
\* test of the next iteration.
FallSafety ==
    /\ (pc = "tick" => fall_y = top_y)
    /\ [](pc = "key" => fall_y < bottom_y)
    /\ [][/\ FallStep => fall_y' = fall_y + 1
          /\ pc = "land" => (pc' = "prompt" \/ (pc' = "key" /\ fall_y' = top_y))
          /\ fall_y' # fall_y => (pc = "land" \/ (pc = "tick" /\ fall_y' = fall_y + 1))
          /\ pc = "tick" => pc' \in {"land", "key"}
          /\ pc = "key" =>
                /\ fall_y' = fall_y
                /\ fall_delay' <= fall_delay
                /\ pc' \in {"tick", "done"}
         ]_vars

\* C18 as stated: whatever keys are pressed, every round reaches a landing.
C18_Original ==
    /\ FallSafety
    /\ []((pc \in {"tick", "key"} /\ Live) => <>(pc = "land"))

\* C18 amended: every round reaches a landing unless the quit key ends the
\* session first.
C18_RoundLands ==
    /\ FallSafety
    /\ []((pc \in {"tick", "key"} /\ Live) => <>(pc = "land" \/ pc = "done"))
    /\ [][(pc = "key" /\ pc' = "done") => KeyQuit]_vars

\* the second round has reached its landing and the segment was edited in it
C18_Witness == pc = "land" /\ landings = 1 /\ mode = "edit_top" /\ edits_applied = 1

\* C20: the score is >= 0 while the session runs; it is negative only after
\* the landing that ended the session, which sets it to the running score plus
\* the negative delta times the multiplier, and it stays as it is afterwards.
C20_ScoreSign ==
    /\ [](Running => score >= 0)
    /\ [](score < 0 => pc \in {"prompt", "leaderboard", "done"})
    /\ [][/\ (pc = "land" /\ pc' = "prompt") =>
                LET delta == score_alignment(falling_seq, fall_x, bottom_seq).delta
                IN  /\ delta < 0
                    /\ score >= 0
                    /\ score' = score + delta * multiplier
          /\ pc \in {"prompt", "leaderboard"} =>
                score' = score /\ landings' = landings
         ]_vars

\* the first landing scored 0 and the second one ended the session below 0
C20_Witness == pc = "prompt" /\ landings = 2 /\ score < 0

=============================================================================
